---- MODULE Spec2Model ----
(***************************************************************************)
(* pdfQA: a desktop chat over PDF files.  The model covers the document    *)
(* index lifecycle (src/src/utils.py, PDFProcessor) and the handlers of    *)
(* the main window (src/src/app.py, PDFChatApp and HistoryDialog).         *)
(*                                                                         *)
(* The application is single threaded: every handler runs to completion    *)
(* before the next event is taken, so each handler is one action.  Calls   *)
(* into the outside world (PDF reading, embedding, FAISS files, the chat   *)
(* model, the two files under ../data) may raise; the place where a        *)
(* handler's run raises is the action's parameter `fail`.  A write of one  *)
(* of the two files that raises leaves the file as it was.                 *)
(*                                                                         *)
(* DocSpec is the document lifecycle over every selection of paths; Spec   *)
(* is the whole application over one document.                             *)
(***************************************************************************)
EXTENDS Naturals, Sequences, FiniteSets

VARIABLES
    index_info,            \* processor.index_info["processed_files"]: Seq of [filename]
    manifestFile,          \* ../data/index_info.json: [exists, files]
    faissIndex,            \* ../data/faiss_index: [state, docs]
    pdf_files,             \* PDFChatApp.pdf_files: Seq of paths
    processed_files_list,  \* the filenames shown in the processed_files_list widget
    process_enabled,       \* process_button.isEnabled()
    send_enabled,          \* send_button.isEnabled()
    historyFile,           \* ../data/question_history.txt: [exists, lines]
    question_history,      \* PDFChatApp.question_history: [set, items]
    conversation_history,  \* PDFChatApp.conversation_history: Seq of [question, answer]
    chat_last,             \* the last line appended to the chat_history widget
    crashed,               \* an exception left a slot uncaught
    trace,                 \* the calls the last handler made, in order
    fault,                 \* the call the outside world made raise in the last handler
    prompt,                \* conversation_context of the last chain built
    shown,                 \* the response text last shown to the user
    docs,                  \* the documents the last similarity search returned
    asked,                 \* questions asked since the last explicit history clear
    everPopulated          \* an index was written to disk at some time

vars == << index_info, manifestFile, faissIndex, pdf_files, process_enabled,
           send_enabled, historyFile, question_history, conversation_history,
           chat_last, crashed, trace, fault, prompt, shown, docs, asked,
           everPopulated, processed_files_list >>

docVars == << index_info, manifestFile, faissIndex, pdf_files, process_enabled,
              processed_files_list, everPopulated >>

chatVars == << historyFile, question_history, conversation_history, asked >>

(***************************************************************************)
(* Bounds of the model.                                                    *)
(***************************************************************************)
MaxSel == 2          \* paths in one file-dialog selection
MaxManifest == 3     \* records in the in-memory manifest, in DocSpec
MaxTurns == 5        \* turns in conversation_history
MaxLog == 2          \* lines in question_history.txt
ChatManifest == 1    \* records in the in-memory manifest, in Spec

(***************************************************************************)
(* Inputs.                                                                 *)
(***************************************************************************)
\* Files the user can pick: two of them share a basename.
Paths ==
    { [dir |-> "d1", name |-> "a.pdf"],
      [dir |-> "d2", name |-> "a.pdf"],
      [dir |-> "d1", name |-> "b.pdf"] }

Range(s) == { s[i] : i \in DOMAIN s }

\* A file-dialog result: distinct paths, or the empty list when cancelled.
Selections ==
    { s \in UNION { [1..n -> Paths] : n \in 0..MaxSel } :
        \A i, j \in DOMAIN s : i # j => s[i] # s[j] }


(***************************************************************************)
(* Files under ../data and what the constructors read from them.           *)
(***************************************************************************)
NoManifest == [exists |-> FALSE, files |-> << >>]
NoHistory == [exists |-> FALSE, lines |-> << >>]
NoIndex == [state |-> "none", docs |-> {}]
CorruptIndex == [state |-> "corrupt", docs |-> {}]

\* os.path.basename
Basename(path) == path.name

\* PDFProcessor.load_index_info: the file's list, or an empty list without a file.
load_index_info(file) == IF file.exists THEN file.files ELSE << >>

\* PDFProcessor.save_index_info: the whole list rewritten (json.dump).
save_index_info(info) == [exists |-> TRUE, files |-> info]

\* A write into, or a removal of, the faiss_index directory that raises leaves
\* the directory as it was or with part of its files.
FailedIndexIO(index) == { index, CorruptIndex }

NoPrompt == [header |-> FALSE, turns |-> << >>]

\* A handler that is no question turn builds no prompt, searches nothing and
\* shows no response.
NoTurn ==
    /\ prompt' = NoPrompt
    /\ docs' = {}
    /\ shown' = ""

\* The prefix of calls made up to and including the one that raises.
UpTo(calls, failed) ==
    IF \E i \in DOMAIN calls : calls[i] = failed
    THEN SubSeq(calls, 1, CHOOSE i \in DOMAIN calls :
                             /\ calls[i] = failed
                             /\ \A j \in 1..(i - 1) : calls[j] # failed)
    ELSE calls

(***************************************************************************)
(* PDFChatApp.upload_pdfs                                                  *)
(***************************************************************************)
\* app.py 242-243: the filename of each record, in the manifest's order.
Filenames(info) == [i \in DOMAIN info |-> info[i].filename]

\* app.py 259: the filenames of the in-memory manifest.
existing_filenames == Range(Filenames(index_info))

\* The selection taken whole, without the check against the manifest.
NewFilesUnchecked(files) == files

\* app.py 261: the selected paths whose basename is not in the manifest.
NewFiles(files) ==
    SelectSeq(files, LAMBDA f : Basename(f) \notin existing_filenames)

upload_pdfs(files) ==
    /\ ~crashed
    /\ trace' = << "upload_pdfs" >>
    /\ fault' = "none"
    /\ IF files = << >>
       THEN UNCHANGED << pdf_files, process_enabled, chat_last >>
       ELSE /\ pdf_files' = NewFiles(files)
            /\ IF NewFiles(files) = << >>
               THEN /\ chat_last' = "all_processed"
                    /\ UNCHANGED process_enabled
               ELSE /\ process_enabled' = TRUE
                    /\ chat_last' = "selected"
    /\ UNCHANGED << index_info, manifestFile, faissIndex, send_enabled,
                    processed_files_list, everPopulated, crashed >>
    /\ NoTurn
    /\ UNCHANGED chatVars

(***************************************************************************)
(* PDFProcessor.process_pdfs and PDFChatApp.process_pdfs                   *)
(***************************************************************************)
ProcessFails == { "none", "get_pdf_text", "embed", "save_local", "save_index_info" }

\* utils.py 188: append to the stored index, or build a new one.
AppendsToIndex == faissIndex.state # "none" /\ index_info # << >>

\* utils.py 178-200: the calls of one run, in order.
ProcessCalls ==
    IF AppendsToIndex
    THEN << "get_pdf_text", "load_local", "embed", "save_local", "save_index_info" >>
    ELSE << "get_pdf_text", "embed", "save_local", "save_index_info" >>

\* The call of process_pdfs that raises: the chosen one, or load_local on a
\* directory that does not hold a whole index.
ProcessRaisedAt(fail) ==
    IF fail = "get_pdf_text" THEN fail
    ELSE IF AppendsToIndex /\ faissIndex.state = "corrupt" THEN "load_local"
    ELSE fail

\* utils.py 189-192: the store that save_local writes.
NewStore ==
    [state |-> "ok",
     docs |-> IF AppendsToIndex
              THEN faissIndex.docs \cup Range(pdf_files)
              ELSE Range(pdf_files)]

\* utils.py 196-199: one record per path of the batch.
AppendRecords(info, files) ==
    info \o [i \in DOMAIN files |-> [filename |-> Basename(files[i])]]

process_pdfs(fail) ==
    /\ ~crashed
    /\ process_enabled
    /\ fault' = IF pdf_files # << >> /\ ProcessRaisedAt(fail) = fail
                THEN fail ELSE "none"
    /\ IF pdf_files = << >>
       THEN /\ trace' = << "process_pdfs" >>
            /\ UNCHANGED << index_info, manifestFile, faissIndex, pdf_files,
                            process_enabled, send_enabled, chat_last,
                            processed_files_list, everPopulated >>
       ELSE LET at == ProcessRaisedAt(fail)
                written == at \in { "save_index_info", "none" }
            IN  /\ trace' = << "process_pdfs" >> \o UpTo(ProcessCalls, at)
                /\ faissIndex' \in
                       IF written THEN { NewStore }
                       ELSE IF at = "save_local" THEN FailedIndexIO(faissIndex)
                       ELSE { faissIndex }
                /\ everPopulated' = (everPopulated \/ written)
                /\ index_info' =
                       IF written THEN AppendRecords(index_info, pdf_files)
                       ELSE index_info
                /\ manifestFile' =
                       IF at = "none" THEN save_index_info(index_info')
                       ELSE manifestFile
                /\ IF at = "none"
                   THEN /\ processed_files_list' = Filenames(index_info')
                        /\ send_enabled' = TRUE
                        /\ chat_last' = "processing_complete"
                        /\ pdf_files' = << >>
                        /\ process_enabled' = FALSE
                   ELSE /\ chat_last' = "error_processing"
                        /\ UNCHANGED << send_enabled, pdf_files, process_enabled,
                                        processed_files_list >>
    /\ UNCHANGED crashed
    /\ NoTurn
    /\ UNCHANGED chatVars

(***************************************************************************)
(* PDFProcessor.clear_index and PDFChatApp.clear_index                     *)
(***************************************************************************)
ClearFails == { "none", "rmtree", "save_index_info" }

\* utils.py 214-218: the calls of one run, in order.
ClearCalls ==
    IF faissIndex.state # "none"
    THEN << "rmtree", "save_index_info" >>
    ELSE << "save_index_info" >>

\* The manifest reset before the index directory is removed.
ClearedManifestFirst(fail) == << >>

\* utils.py 215-217: the reset of the manifest is reached only when rmtree
\* has returned.
ClearedManifest(fail) == IF fail = "rmtree" THEN index_info ELSE << >>

clear_index(fail) ==
    /\ ~crashed
    /\ fail = "rmtree" => faissIndex.state # "none"
    /\ fault' = fail
    /\ trace' = << "clear_index" >> \o UpTo(ClearCalls, fail)
    /\ faissIndex' \in
           IF fail = "rmtree" THEN FailedIndexIO(faissIndex) ELSE { NoIndex }
    /\ index_info' = ClearedManifest(fail)
    /\ manifestFile' =
           IF fail = "none" THEN save_index_info(index_info') ELSE manifestFile
    /\ IF fail = "none"
       THEN /\ processed_files_list' = Filenames(index_info')
            /\ send_enabled' = FALSE
            /\ chat_last' = "index_cleared"
       ELSE /\ chat_last' = "error"
            /\ UNCHANGED << send_enabled, processed_files_list >>
    /\ UNCHANGED << pdf_files, process_enabled, everPopulated, crashed >>
    /\ NoTurn
    /\ UNCHANGED chatVars


(***************************************************************************)
(* The question field and the question history file                        *)
(***************************************************************************)
\* The text of the question field, line by line: Shift+Return starts a new
\* line (app.py 34-35).  " " is a line of white space, "x " a line that ends
\* with white space.
Texts == { << " " >>, << "y", "" >>, << "x ", "y" >> }

\* The chat model's answers: text with markdown marks.
Responses == { "**bold**  text" }

\* str.rstrip and str.lstrip on one line.
RStripLine(line) ==
    CASE line = "x " -> "x"
      [] line = " " -> ""
      [] OTHER -> line

LStripLine(line) == IF line = " " THEN "" ELSE line

\* str.strip on one line (app.py 438).
StripLine(line) == LStripLine(RStripLine(line))

RECURSIVE DropBlankHead(_)
DropBlankHead(text) ==
    IF text = << >> THEN << >>
    ELSE IF StripLine(Head(text)) = "" THEN DropBlankHead(Tail(text))
    ELSE text

RECURSIVE DropBlankTail(_)
DropBlankTail(text) ==
    IF text = << >> THEN << >>
    ELSE IF StripLine(text[Len(text)]) = ""
         THEN DropBlankTail(SubSeq(text, 1, Len(text) - 1))
    ELSE text

\* app.py 328: toPlainText().strip() removes the white space, line breaks
\* included, before the first and after the last visible character.
StripText(text) ==
    LET t == DropBlankTail(DropBlankHead(text))
    IN  [i \in DOMAIN t |->
            LET l == IF i = 1 THEN LStripLine(t[i]) ELSE t[i]
            IN  IF i = Len(t) THEN RStripLine(l) ELSE l]

\* app.py 336-337: f"{question}\n" appended to the file.
log_write(file, question) ==
    [exists |-> TRUE, lines |-> file.lines \o question]

\* app.py 436-438: one entry per line of the file; without a file the
\* attribute is never assigned.
load_history(file) ==
    IF file.exists
    THEN [set |-> TRUE,
          items |-> [i \in DOMAIN file.lines |-> << StripLine(file.lines[i]) >>]]
    ELSE [set |-> FALSE, items |-> << >>]

\* app.py 369: the chain of str.replace calls.
StripMarkdown(response) ==
    IF response = "**bold**  text" THEN "bold text" ELSE response

\* app.py 352: the turns of the history that go into the prompt.
HistoryWindow == 3

\* Python's history[:n], the oldest turns instead of the newest.
FirstN(history, n) ==
    SubSeq(history, 1, IF Len(history) > n THEN n ELSE Len(history))

\* Python's history[-n:].
LastN(history, n) ==
    SubSeq(history, IF Len(history) > n THEN Len(history) - n + 1 ELSE 1,
           Len(history))

\* app.py 349-353: the conversation section of the prompt.
ConversationContext(history) ==
    IF history = << >>
    THEN [header |-> FALSE, turns |-> << >>]
    ELSE [header |-> TRUE, turns |-> LastN(history, HistoryWindow)]



(***************************************************************************)
(* PDFChatApp.ask_question                                                 *)
(***************************************************************************)
AskFails == { "none", "log_write", "detect_language", "get_vector_store", "invoke" }

\* The question written to the log inside the try statement, after the
\* language detection.
AskCallsLogLate ==
    << "history_append", "detect_language", "log_write", "get_vector_store",
       "similarity_search", "get_conversational_chain", "invoke", "turn_append",
       "strip_markdown", "show_response" >>

\* app.py 336-372: the calls of one question turn, in order.
AskCalls ==
    << "log_write", "history_append", "detect_language", "get_vector_store",
       "similarity_search", "get_conversational_chain", "invoke", "turn_append",
       "strip_markdown", "show_response" >>

\* The call of ask_question that raises: the chosen one, or the append to an
\* attribute that was never assigned, or FAISS.load_local on a directory that
\* does not hold a whole index.
AskRaisedAt(fail) ==
    IF fail = "log_write" THEN fail
    ELSE IF ~question_history.set THEN "history_append"
    ELSE IF fail = "detect_language" THEN fail
    ELSE IF faissIndex.state # "ok" THEN "get_vector_store"
    ELSE fail

\* The calls before the try statement (app.py 328-339): what they raise is
\* caught by no handler.
Uncaught == { "log_write", "history_append" }

\* The call was made and returned.
Done(call, at) == call \in Range(UpTo(AskCalls, at)) /\ call # at

ask_question(via, text, resp, fail) ==
    /\ ~crashed
    /\ via = "button" => send_enabled
    /\ LET question == StripText(text)
           at == AskRaisedAt(fail)
       IN  IF question = << >>
           THEN /\ trace' = << "ask_question" >>
                /\ fault' = "none"
                /\ NoTurn
                /\ UNCHANGED << historyFile, question_history, asked,
                                conversation_history, chat_last, crashed >>
           ELSE /\ trace' = << "ask_question" >> \o UpTo(AskCalls, at)
                /\ fault' = IF at = fail THEN fail ELSE "none"
                /\ historyFile' = IF Done("log_write", at)
                                  THEN log_write(historyFile, question)
                                  ELSE historyFile
                /\ asked' = IF Done("log_write", at)
                            THEN Append(asked, question) ELSE asked
                /\ question_history' =
                       IF Done("history_append", at)
                       THEN [question_history EXCEPT
                                !.items = Append(question_history.items, question)]
                       ELSE question_history
                /\ docs' = IF Done("similarity_search", at)
                           THEN faissIndex.docs ELSE {}
                /\ prompt' = IF Done("get_conversational_chain", at)
                             THEN ConversationContext(conversation_history)
                             ELSE NoPrompt
                /\ conversation_history' =
                       IF Done("turn_append", at)
                       THEN Append(conversation_history,
                                   [question |-> question, answer |-> resp])
                       ELSE conversation_history
                /\ shown' = IF Done("show_response", at)
                            THEN StripMarkdown(resp) ELSE ""
                /\ chat_last' = IF at = "none" THEN "response"
                                ELSE IF at \in Uncaught THEN "question"
                                ELSE "error"
                /\ crashed' = (at \in Uncaught)
    /\ UNCHANGED << send_enabled >>
    /\ UNCHANGED docVars

(***************************************************************************)
(* PDFChatApp.clear_chat_history                                           *)
(***************************************************************************)
clear_chat_history ==
    /\ ~crashed
    /\ trace' = << "clear_chat_history" >>
    /\ fault' = "none"
    /\ chat_last' = "none"
    /\ conversation_history' = << >>
    /\ NoTurn
    /\ UNCHANGED << historyFile, question_history, asked, send_enabled, crashed >>
    /\ UNCHANGED docVars

(***************************************************************************)
(* PDFChatApp.show_history and HistoryDialog.clear_history                 *)
(***************************************************************************)
HistoryFails == { "none", "truncate" }

\* The dialog is opened and, when `clear` is set, its Clear History button
\* is pressed.
show_history(clear, fail) ==
    /\ ~crashed
    /\ fault' = IF question_history.set /\ clear THEN fail ELSE "none"
    /\ IF ~question_history.set
       THEN /\ trace' = << "show_history" >>
            /\ crashed' = TRUE
            /\ UNCHANGED << question_history, historyFile, asked >>
       ELSE IF ~clear
       THEN /\ trace' = << "show_history", "dialog" >>
            /\ UNCHANGED << question_history, historyFile, asked, crashed >>
       ELSE /\ trace' = << "show_history", "dialog", "clear_history" >>
            /\ question_history' = [question_history EXCEPT !.items = << >>]
            /\ IF fail = "truncate"
               THEN /\ crashed' = TRUE
                    /\ UNCHANGED << historyFile, asked >>
               ELSE /\ historyFile' = [exists |-> TRUE, lines |-> << >>]
                    /\ asked' = << >>
                    /\ UNCHANGED crashed
    /\ NoTurn
    /\ UNCHANGED << conversation_history, chat_last, send_enabled >>
    /\ UNCHANGED docVars

(***************************************************************************)
(* PDFChatApp.__init__: the application is started (again).                *)
(***************************************************************************)
Construct ==
    /\ index_info' = load_index_info(manifestFile)
    /\ pdf_files' = << >>
    /\ conversation_history' = << >>
    /\ question_history' = load_history(historyFile)
    /\ processed_files_list' = Filenames(index_info')
    /\ process_enabled' = FALSE
    /\ send_enabled' = (Len(index_info') > 0)
    /\ chat_last' = "none"
    /\ crashed' = FALSE
    /\ trace' = << "__init__" >>
    /\ fault' = "none"
    /\ prompt' = NoPrompt
    /\ shown' = ""
    /\ docs' = {}
    /\ UNCHANGED << manifestFile, faissIndex, historyFile, asked, everPopulated >>

\* The first start: no file under ../data yet.
Init ==
    /\ manifestFile = NoManifest
    /\ faissIndex = NoIndex
    /\ historyFile = NoHistory
    /\ index_info = load_index_info(NoManifest)
    /\ pdf_files = << >>
    /\ conversation_history = << >>
    /\ question_history = load_history(NoHistory)
    /\ processed_files_list = << >>
    /\ process_enabled = FALSE
    /\ send_enabled = FALSE
    /\ chat_last = "none"
    /\ crashed = FALSE
    /\ trace = << "__init__" >>
    /\ fault = "none"
    /\ prompt = NoPrompt
    /\ shown = ""
    /\ docs = {}
    /\ asked = << >>
    /\ everPopulated = FALSE

(***************************************************************************)
(* The user's actions, within the bounds of each specification.            *)
(***************************************************************************)
Upload(selections) == \E files \in selections : upload_pdfs(files)

Process(maxManifest) ==
    \E fail \in ProcessFails :
        /\ Len(index_info) + Len(pdf_files) <= maxManifest
        /\ process_pdfs(fail)

ClearIndex == \E fail \in ClearFails : clear_index(fail)

Ask(texts, responses, maxTurns, maxLog) ==
    \E via \in { "button", "return" }, text \in texts, resp \in responses,
       fail \in AskFails :
        /\ Len(conversation_history) < maxTurns
        /\ Len(historyFile.lines) + Len(StripText(text)) <= maxLog
        /\ ask_question(via, text, resp, fail)

ClearChat == clear_chat_history

History == \E clear \in BOOLEAN, fail \in HistoryFails : show_history(clear, fail)

Restart == Construct

\* The document lifecycle: every selection of paths, every failure.
DocNext ==
    \/ Upload(Selections)
    \/ Process(MaxManifest)
    \/ ClearIndex
    \/ Restart

DocSpec == Init /\ [][DocNext]_vars

\* The whole application, over one document.
ChatSelections == { << >>, << [dir |-> "d1", name |-> "a.pdf"] >> }

Next ==
    \/ Upload(ChatSelections)
    \/ Process(ChatManifest)
    \/ ClearIndex
    \/ Ask(Texts, Responses, MaxTurns, MaxLog)
    \/ ClearChat
    \/ History
    \/ Restart

Spec == Init /\ [][Next]_vars


(***************************************************************************)
(* Properties                                                              *)
(***************************************************************************)
Min(a, b) == IF a < b THEN a ELSE b

Last(s) == s[Len(s)]

\* The filenames whose text is held by a loadable index on disk.
IndexedFilenames ==
    IF faissIndex.state = "ok"
    THEN { Basename(path) : path \in faissIndex.docs }
    ELSE {}

\* C1: every filename of the manifest on disk has its chunks in the vector
\* index on disk, in every state reachable by uploads, ingests, clears and
\* restarts, those that fail part-way included.
C1_ManifestWithinIndex ==
    \A i \in DOMAIN manifestFile.files :
        manifestFile.files[i].filename \in IndexedFilenames

C9_ClearIsAtomic ==
    [][\A fail \in ClearFails :
          clear_index(fail) =>
              /\ \/ /\ chat_last' = "index_cleared"
                    /\ faissIndex' = NoIndex
                    /\ index_info' = << >>
                    /\ manifestFile' = [exists |-> TRUE, files |-> << >>]
                 \/ chat_last' = "error"
              /\ Last(trace') = "rmtree" =>
                     /\ index_info' = index_info
                     /\ manifestFile' = manifestFile
              /\ index_info' # index_info => faissIndex'.state = "none"]_vars

\* C9 witness: the deletion of the index failed while the manifest held files.
C9_Witness ==
    /\ trace = << "clear_index", "rmtree" >>
    /\ chat_last = "error"
    /\ index_info # << >>
    /\ manifestFile.files = index_info

\* C10: after every operation, failed or not, the manifest in memory equals
\* the manifest file on disk.
C10_MemoryEqualsDisk == index_info = load_index_info(manifestFile)


\* The calls of a question turn that can raise inside the try statement.
TurnSteps ==
    { "detect_language", "get_vector_store", "similarity_search",
      "get_conversational_chain", "invoke" }

\* C3: after a clear-index that succeeded the document list is empty, in
\* memory and on disk, and the search of the next question returns an empty
\* sequence instead of raising.
C3_SearchAfterClear ==
    [][\A via \in { "button", "return" }, text \in Texts, resp \in Responses :
          ( /\ chat_last = "index_cleared"
            /\ question_history.set
            /\ StripText(text) # << >>
            /\ ask_question(via, text, resp, "none") ) =>
              /\ index_info = << >>
              /\ manifestFile.files = << >>
              /\ "similarity_search" \in Range(trace')
              /\ docs' = {}
              /\ chat_last' # "error"]_vars

\* C4: a question asked while no index was ever written does not end in an
\* error: the search returns nothing, the prompt is built, the chat model is
\* invoked and its response is shown.
C4_QuestionWithoutIndex ==
    [][\A via \in { "button", "return" }, text \in Texts, resp \in Responses :
          ( /\ ~everPopulated
            /\ question_history.set
            /\ StripText(text) # << >>
            /\ ask_question(via, text, resp, "none") ) =>
              /\ docs' = {}
              /\ "invoke" \in Range(trace')
              /\ chat_last' = "response"
              /\ shown' = StripMarkdown(resp)]_vars

\* The turns of the conversation history before the last handler ran.
PriorTurns ==
    IF "turn_append" \in Range(trace)
    THEN SubSeq(conversation_history, 1, Len(conversation_history) - 1)
    ELSE conversation_history

\* C5: the conversation section of the prompt of a question turn holds no
\* header and no turn when there is no earlier turn, and otherwise the header
\* and the last min(n, 3) of the n earlier turns, oldest first.
C5_PromptWindow ==
    "get_conversational_chain" \in Range(trace) =>
        LET n == Len(PriorTurns)
            k == Min(n, 3)
        IN  /\ n = 0 => (~prompt.header /\ prompt.turns = << >>)
            /\ n >= 1 =>
                 /\ prompt.header
                 /\ Len(prompt.turns) = k
                 /\ \A i \in 1..k : prompt.turns[i] = PriorTurns[n - k + i]

\* C5 witness: a fifth turn was answered; its prompt held turns 2, 3 and 4,
\* which are not all alike.
C5_Witness ==
    /\ Last(trace) = "show_response"
    /\ Len(conversation_history) = 5
    /\ prompt.header
    /\ prompt.turns = SubSeq(conversation_history, 2, 4)
    /\ prompt.turns[1] # prompt.turns[3]

\* C6: in a question turn the question is in the log file before language
\* detection, retrieval or generation is tried; when one of them fails the
\* conversation history stays as it was and the question stays in the log.
C6_LoggedBeforeAttempt ==
    [][( /\ trace'[1] = "ask_question"
         /\ \E i \in DOMAIN trace' : trace'[i] \in TurnSteps ) =>
            /\ \A i \in DOMAIN trace' :
                   trace'[i] \in TurnSteps =>
                       \E j \in 1..(i - 1) : trace'[j] = "log_write"
            /\ asked' # << >>
            /\ asked' = Append(asked, Last(asked'))
            /\ historyFile'.exists
            /\ historyFile'.lines = historyFile.lines \o Last(asked')
            /\ Last(trace') \in TurnSteps =>
                   /\ conversation_history' = conversation_history
                   /\ chat_last' = "error"
                   /\ ~crashed']_vars

\* C6 witness: generation failed after a question was logged, with an earlier
\* turn in the conversation history.
C6_Witness ==
    /\ Last(trace) = "invoke"
    /\ chat_last = "error"
    /\ conversation_history # << >>
    /\ asked # << >>
    /\ historyFile.lines # << >>
    /\ Last(asked) # Last(conversation_history).question

\* C7: no failure inside an ingest, a clear-index or a question crashes the
\* process, the first run without a history file included: with nothing
\* failing outside the program, no handler leaves the process crashed.
C7_NoCrash ==
    (trace[1] \in { "process_pdfs", "clear_index", "ask_question" } /\ fault = "none")
        => ~crashed

\* The entries of the question history, none when it was never assigned.
LoadedHistory == IF question_history.set THEN question_history.items ELSE << >>

\* C8: the log holds one line per question asked since the last explicit
\* clear, and the history loaded at startup is the sequence of those questions.
C8_HistoryRoundTrip ==
    /\ Len(historyFile.lines) = Len(asked)
    /\ trace = << "__init__" >> => LoadedHistory = asked

\* No filename occurs in two records of the list.
UniqueFilenames(info) ==
    \A i, j \in DOMAIN info : info[i].filename = info[j].filename => i = j

\* C11: the filename is a unique key of the manifest, in memory and on disk:
\* after any uploads, ingests, clears and restarts no two records hold the
\* same filename.
C11_FilenameIsKey ==
    /\ UniqueFilenames(index_info)
    /\ UniqueFilenames(manifestFile.files)

\* The rule of utils.py 188 as the steps of an ingest show it: the stored index
\* is loaded and extended only when the directory exists and the manifest in
\* memory is not empty; otherwise the index written holds the batch alone.
CreateOrAppendRule ==
    [][( /\ trace'[1] = "process_pdfs"
         /\ \E i \in DOMAIN trace' : trace'[i] = "save_local"
         /\ Last(trace') # "save_local" ) =>
           /\ faissIndex'.state = "ok"
           /\ faissIndex'.docs =
                  IF faissIndex.state # "none" /\ index_info # << >>
                  THEN faissIndex.docs \cup Range(pdf_files)
                  ELSE Range(pdf_files)
           /\ ("load_local" \in Range(trace')) <=>
                  (faissIndex.state # "none" /\ index_info # << >>)]_vars

\* C12: ingest chooses between create and append from the manifest as well as
\* the directory, and so the index on disk never holds chunks of a document
\* that the manifest does not list, neither in memory nor on disk.
C12_NoPhantomIndex ==
    IndexedFilenames \subseteq
        (Range(Filenames(index_info)) \cup Range(Filenames(manifestFile.files)))

\* Position of a call among the calls of the last handler, 0 when it was not
\* made.
CallAt(name) ==
    IF name \in Range(trace)
    THEN CHOOSE i \in DOMAIN trace : trace[i] = name
    ELSE 0

\* C13: a question turn that succeeded invoked the model, then stripped the
\* response, then appended the turn, and the answer kept in the turn is the
\* stripped text that was shown to the user.
C13_StoredAnswerIsShown ==
    (trace[1] = "ask_question" /\ Last(trace) = "show_response") =>
        /\ CallAt("invoke") < CallAt("strip_markdown")
        /\ CallAt("strip_markdown") < CallAt("turn_append")
        /\ Last(conversation_history).answer = shown

\* C14: the Ask control is enabled exactly when the manifest in memory is not
\* empty, and neither the button nor the Return key runs ask_question while
\* the manifest is empty.
C14_AskNeedsDocument ==
    /\ send_enabled <=> index_info # << >>
    /\ (trace[1] = "ask_question" /\ Len(trace) > 1) => index_info # << >>

====
